---------------------------- MODULE Spec2Model ----------------------------
(***************************************************************************)
(* State-machine model of the snake game of src/snake_game.py: the Snake   *)
(* and Food objects, the GameBoard handlers (update_game, keyPressEvent,   *)
(* restart_game, resizeEvent) and the game_over signal with its slot       *)
(* SnakeGameWindow.on_game_over.  Every handler runs to completion on the  *)
(* single Qt event loop, so each one is one atomic action.                 *)
(***************************************************************************)
EXTENDS Integers, Sequences, FiniteSets, TLC

VARIABLES
    snake,              \* Snake object: body, direction, grow, grid_width, grid_height
    food,               \* Food object: position, grid_width, grid_height
    score,              \* GameBoard.score
    game_active,        \* GameBoard.game_active
    cell_size,          \* GameBoard.cell_size
    grid_width,         \* GameBoard.grid_width
    grid_height,        \* GameBoard.grid_height
    timer_active,       \* GameBoard.timer.isActive()
    score_timer_active, \* SnakeGameWindow.score_timer.isActive()
    game_over_emitted,  \* number of game_over.emit() calls so far
    respawning,         \* Food.respawn's loop is running (inside update_game)
    events,             \* number of events (timeouts, keys, resizes) handled so far
    last                \* the handler that ran last

vars == <<snake, food, score, game_active, cell_size, grid_width, grid_height,
          timer_active, score_timer_active, game_over_emitted,
          respawning, events, last>>

-----------------------------------------------------------------------------
(* Bounds of the exploration.                                              *)

\* a run handles at most MaxEvents events
MaxEvents == 8
\* random.randint draws are explored within FoodSpread steps of the grid centre
FoodSpread == 1

\* the pure function calculate_dimensions is explored on widths and heights
\* 1..MaxPixel
MaxPixel == 340

\* Widget sizes (width, height) delivered by resize events: the board's minimum
\* size (setMinimumSize(300, 300)) and its size in the default 600x700 window
\* (margins 20, score label 50, spacing 15).
PixelSizes == {<<300, 300>>, <<560, 595>>}

-----------------------------------------------------------------------------
(* Program constants.                                                      *)

MIN_CELL_SIZE == 15
MAX_CELL_SIZE == 35
PREFERRED_CELL_SIZE == 24
MIN_GRID_SIZE == 15

DIRECTIONS == [UP |-> <<0, -1>>, DOWN |-> <<0, 1>>, LEFT |-> <<-1, 0>>, RIGHT |-> <<1, 0>>]

DirectionSet == {DIRECTIONS.UP, DIRECTIONS.DOWN, DIRECTIONS.LEFT, DIRECTIONS.RIGHT}

Max(a, b) == IF a >= b THEN a ELSE b

Min(a, b) == IF a <= b THEN a ELSE b

Abs(a) == IF a >= 0 THEN a ELSE -a

\* the cells of a body, as a set
Cells(body) == {body[i] : i \in 1..Len(body)}

-----------------------------------------------------------------------------
(* class Snake                                                             *)

Snake_init(gw, gh) ==
    LET start_x == gw \div 2
        start_y == gh \div 2
    IN [body |-> << <<start_x, start_y>>, <<start_x - 1, start_y>>, <<start_x - 2, start_y>> >>,
        direction |-> DIRECTIONS.RIGHT,
        grow |-> FALSE,
        grid_width |-> gw,
        grid_height |-> gh]

\* move() that never lets the body grow
move_always_pops(s) ==
    LET new_head == <<s.body[1][1] + s.direction[1], s.body[1][2] + s.direction[2]>>
        inserted == <<new_head>> \o s.body
    IN [s EXCEPT !.body = SubSeq(inserted, 1, Len(inserted) - 1), !.grow = FALSE]

\* move() without body.pop()
move_keeps_tail(s) ==
    LET new_head == <<s.body[1][1] + s.direction[1], s.body[1][2] + s.direction[2]>>
    IN [s EXCEPT !.body = <<new_head>> \o s.body, !.grow = FALSE]

move(s) ==
    LET new_head == <<s.body[1][1] + s.direction[1], s.body[1][2] + s.direction[2]>>
        inserted == <<new_head>> \o s.body
    IN IF ~s.grow
       THEN [s EXCEPT !.body = SubSeq(inserted, 1, Len(inserted) - 1)]
       ELSE [s EXCEPT !.body = inserted, !.grow = FALSE]

change_direction(s, new_direction) ==
    IF <<s.direction[1] * (-1), s.direction[2] * (-1)>> # new_direction
    THEN [s EXCEPT !.direction = new_direction]
    ELSE s

\* check_collision() with "head_x > grid_width" for the right wall
check_collision_right_wall_off_by_one(s) ==
    LET head_x == s.body[1][1]
        head_y == s.body[1][2]
    IN \/ head_x < 0
       \/ head_x > s.grid_width
       \/ head_y < 0
       \/ head_y >= s.grid_height
       \/ \E i \in 2..Len(s.body) : s.body[i] = s.body[1]

\* check_collision() without the check against the body
check_collision_walls_only(s) ==
    LET head_x == s.body[1][1]
        head_y == s.body[1][2]
    IN \/ head_x < 0
       \/ head_x >= s.grid_width
       \/ head_y < 0
       \/ head_y >= s.grid_height

\* check_collision() without the test of the right wall
check_collision_no_right_wall(s) ==
    LET head_x == s.body[1][1]
        head_y == s.body[1][2]
    IN \/ head_x < 0
       \/ head_y < 0
       \/ head_y >= s.grid_height
       \/ \E i \in 2..Len(s.body) : s.body[i] = s.body[1]

\* check_collision() with "self.body[0] in self.body"
check_collision_whole_body(s) ==
    LET head_x == s.body[1][1]
        head_y == s.body[1][2]
    IN \/ head_x < 0
       \/ head_x >= s.grid_width
       \/ head_y < 0
       \/ head_y >= s.grid_height
       \/ \E i \in 1..Len(s.body) : s.body[i] = s.body[1]

check_collision(s) ==
    LET head_x == s.body[1][1]
        head_y == s.body[1][2]
    IN \/ head_x < 0
       \/ head_x >= s.grid_width
       \/ head_y < 0
       \/ head_y >= s.grid_height
       \/ \E i \in 2..Len(s.body) : s.body[i] = s.body[1]

\* eat_food() that does not set the flag
eat_food_forgets(s) == s

eat_food(s) == [s EXCEPT !.grow = TRUE]

\* update_grid_size() that stores the width only
Snake_update_grid_size_width_only(s, new_grid_width, new_grid_height) ==
    [s EXCEPT !.grid_width = new_grid_width]

Snake_update_grid_size(s, new_grid_width, new_grid_height) ==
    [s EXCEPT !.grid_width = new_grid_width, !.grid_height = new_grid_height]

-----------------------------------------------------------------------------
(* class Food.  A random draw is a nondeterministic choice, so the methods *)
(* that draw give the set of their possible results.                       *)

\* the outcomes (x, y) of the two random.randint draws that are explored: the
\* cells of the grid at most FoodSpread steps away from the grid centre
generate_position(f) ==
    LET cx == f.grid_width \div 2
        cy == f.grid_height \div 2
    IN {p \in ((cx - FoodSpread)..(cx + FoodSpread)) \X ((cy - FoodSpread)..(cy + FoodSpread)) :
          /\ Abs(p[1] - cx) + Abs(p[2] - cy) <= FoodSpread
          /\ 0 <= p[1] /\ p[1] <= f.grid_width - 1
          /\ 0 <= p[2] /\ p[2] <= f.grid_height - 1}

Food_init(gw, gh) ==
    LET f == [position |-> <<0, 0>>, grid_width |-> gw, grid_height |-> gh]
    IN {[f EXCEPT !.position = p] : p \in generate_position(f)}

\* the loop draws until the position is off the body: it ends on any such draw
respawn(f, snake_body) ==
    {[f EXCEPT !.position = p] : p \in generate_position(f) \ Cells(snake_body)}

\* respawn() with the test of its loop inverted
respawn_done_inverted(position, snake_body) == position \in Cells(snake_body)

\* respawn(), "if self.position not in snake_body: break"
respawn_done(position, snake_body) == position \notin Cells(snake_body)

Food_update_grid_size(f, new_grid_width, new_grid_height) ==
    LET g == [f EXCEPT !.grid_width = new_grid_width, !.grid_height = new_grid_height]
    IN {[g EXCEPT !.position = p] : p \in generate_position(g)}

-----------------------------------------------------------------------------
(* class GameBoard                                                         *)

\* calculate_dimensions() without the last "max(..., MIN_GRID_SIZE)" lines
calculate_dimensions_no_final_floor(width, height) ==
    LET available_width == width - 4
        available_height == height - 4
        max_grid_width == Max(available_width \div MIN_CELL_SIZE, MIN_GRID_SIZE)
        max_grid_height == Max(available_height \div MIN_CELL_SIZE, MIN_GRID_SIZE)
        cell_size_w == available_width \div max_grid_width
        cell_size_h == available_height \div max_grid_height
        cs == Max(MIN_CELL_SIZE, Min(MAX_CELL_SIZE, Min(cell_size_w, cell_size_h)))
    IN [cell_size |-> cs,
        grid_width |-> available_width \div cs,
        grid_height |-> available_height \div cs]

calculate_dimensions(width, height) ==
    LET available_width == width - 4
        available_height == height - 4
        max_grid_width == Max(available_width \div MIN_CELL_SIZE, MIN_GRID_SIZE)
        max_grid_height == Max(available_height \div MIN_CELL_SIZE, MIN_GRID_SIZE)
        cell_size_w == available_width \div max_grid_width
        cell_size_h == available_height \div max_grid_height
        cs == Max(MIN_CELL_SIZE, Min(MAX_CELL_SIZE, Min(cell_size_w, cell_size_h)))
    IN [cell_size |-> cs,
        grid_width |-> Max(available_width \div cs, MIN_GRID_SIZE),
        grid_height |-> Max(available_height \div cs, MIN_GRID_SIZE)]

\* the snake, food, score and game_active that init_game can leave
init_game(gw, gh) ==
    {[snake |-> Snake_init(gw, gh), food |-> f, score |-> 0, game_active |-> TRUE] :
        f \in Food_init(gw, gh)}

\* resizeEvent, "if hasattr(self, 'snake') ..." block: __init__ has run
\* init_game before any event is delivered, so both objects exist
reconcile(new_grid_width, new_grid_height) ==
    LET snake_valid == \A i \in 1..Len(snake.body) :
                           /\ 0 <= snake.body[i][1] /\ snake.body[i][1] < new_grid_width
                           /\ 0 <= snake.body[i][2] /\ snake.body[i][2] < new_grid_height
    IN IF snake_valid
       THEN {[snake |-> Snake_update_grid_size(snake, new_grid_width, new_grid_height),
              food |-> f, score |-> score, game_active |-> game_active] :
                f \in UNION {respawn(g, snake.body) :
                               g \in Food_update_grid_size(food, new_grid_width, new_grid_height)}}
       ELSE init_game(new_grid_width, new_grid_height)

\* resizeEvent without its last two assignments
restore_session_dropped(g, old_score, old_game_active) == g

\* resizeEvent, "self.score = old_score; self.game_active = old_game_active"
restore_session(g, old_score, old_game_active) ==
    [g EXCEPT !.score = old_score, !.game_active = old_game_active]

\* resizeEvent that reconciles on every event
dimensions_changed_always(new) == TRUE

\* resizeEvent, "if (new_cell_size != self.cell_size or new_grid_width != ...)"
dimensions_changed(new) ==
    \/ new.cell_size # cell_size
    \/ new.grid_width # grid_width
    \/ new.grid_height # grid_height

\* resizeEvent without "if was_running and self.game_active: self.timer.start(150)"
timer_after_resize_not_restarted(was_running, active) == FALSE

\* resizeEvent: the timer is stopped if it ran, and started again
\* "if was_running and self.game_active"
timer_after_resize(was_running, active) == was_running /\ active

\* update_game with "self.score += 1"
score_after_food_plus_one(old_score) == old_score + 1

\* update_game, "self.score += 10"
score_after_food(old_score) == old_score + 10

\* keyPressEvent that restarts on every Key_Space
restart_accepted_always == TRUE

\* keyPressEvent, "event.key() == Qt.Key_Space and not self.game_active"
restart_accepted == ~game_active

-----------------------------------------------------------------------------
(* Initial state: GameBoard.__init__ and SnakeGameWindow.init_ui are done. *)

Init ==
    /\ cell_size = PREFERRED_CELL_SIZE
    /\ grid_width = MIN_GRID_SIZE
    /\ grid_height = MIN_GRID_SIZE
    /\ \E g \in init_game(MIN_GRID_SIZE, MIN_GRID_SIZE) :
          /\ snake = g.snake
          /\ food = g.food
          /\ score = g.score
          /\ game_active = g.game_active
    /\ timer_active = TRUE
    /\ score_timer_active = TRUE
    /\ game_over_emitted = 0
    /\ respawning = FALSE
    /\ events = 0
    /\ last = "init"

-----------------------------------------------------------------------------
(* Handlers.                                                               *)

\* timer timeout -> GameBoard.update_game; the game_over signal is connected
\* to SnakeGameWindow.on_game_over, which runs inside emit()
UpdateGame ==
    /\ timer_active
    /\ events < MaxEvents
    /\ events' = events + 1
    /\ last' = "update_game"
    /\ UNCHANGED <<cell_size, grid_width, grid_height, respawning>>
    /\ LET moved == move(snake) IN
       IF ~game_active
       THEN UNCHANGED <<snake, food, score, game_active, timer_active,
                        score_timer_active, game_over_emitted>>
       ELSE IF check_collision(moved)
       THEN /\ snake' = moved
            /\ game_active' = FALSE
            /\ timer_active' = FALSE
            /\ game_over_emitted' = game_over_emitted + 1
            /\ score_timer_active' = FALSE
            /\ UNCHANGED <<food, score>>
       ELSE IF moved.body[1] = food.position
       THEN /\ snake' = eat_food(moved)
            /\ food' \in respawn(food, moved.body)
            /\ score' = score_after_food(score)
            /\ UNCHANGED <<game_active, timer_active, score_timer_active, game_over_emitted>>
       ELSE /\ snake' = moved
            /\ UNCHANGED <<food, score, game_active, timer_active,
                           score_timer_active, game_over_emitted>>

\* keyPressEvent with one of the four arrow keys
KeyPressDirection(d) ==
    /\ events < MaxEvents
    /\ events' = events + 1
    /\ last' = "key_direction"
    /\ snake' = change_direction(snake, d)
    /\ UNCHANGED <<food, score, game_active, cell_size, grid_width, grid_height,
                   timer_active, score_timer_active, game_over_emitted, respawning>>

\* keyPressEvent with Key_Space while the game is over -> restart_game
KeyPressSpaceRestart ==
    /\ restart_accepted
    /\ events < MaxEvents
    /\ events' = events + 1
    /\ last' = "restart_game"
    /\ \E g \in init_game(grid_width, grid_height) :
          /\ snake' = g.snake
          /\ food' = g.food
          /\ score' = g.score
          /\ game_active' = g.game_active
    /\ timer_active' = TRUE
    /\ UNCHANGED <<cell_size, grid_width, grid_height, score_timer_active,
                   game_over_emitted, respawning>>

\* keyPressEvent with Key_Space while the game is running: no branch is taken
KeyPressSpaceIgnored ==
    /\ ~restart_accepted
    /\ events < MaxEvents
    /\ events' = events + 1
    /\ last' = "space_ignored"
    /\ UNCHANGED <<snake, food, score, game_active, cell_size, grid_width, grid_height,
                   timer_active, score_timer_active, game_over_emitted, respawning>>

\* resizeEvent with the widget's new pixel size
ResizeEvent(width, height) ==
    /\ events < MaxEvents
    /\ events' = events + 1
    /\ last' = "resizeEvent"
    /\ UNCHANGED <<score_timer_active, game_over_emitted, respawning>>
    /\ LET new == calculate_dimensions(width, height) IN
       IF dimensions_changed(new)
       THEN LET was_running == timer_active
                old_game_active == game_active
                old_score == score
            IN /\ cell_size' = new.cell_size
               /\ grid_width' = new.grid_width
               /\ grid_height' = new.grid_height
               /\ \E g \in reconcile(new.grid_width, new.grid_height) :
                     LET r == restore_session(g, old_score, old_game_active)
                     IN /\ snake' = r.snake
                        /\ food' = r.food
                        /\ score' = r.score
                        /\ game_active' = r.game_active
                        /\ timer_active' = timer_after_resize(was_running, r.game_active)
       ELSE UNCHANGED <<snake, food, score, game_active, cell_size, grid_width,
                        grid_height, timer_active>>

Next ==
    \/ UpdateGame
    \/ \E d \in DirectionSet : KeyPressDirection(d)
    \/ KeyPressSpaceRestart
    \/ KeyPressSpaceIgnored
    \/ \E size \in PixelSizes : ResizeEvent(size[1], size[2])

Spec == Init /\ [][Next]_vars

\* the resize handler of a board just constructed, applied to any size of
\* 1..MaxPixel by 1..MaxPixel: the state it leaves holds the result of
\* calculate_dimensions
FirstResizeAnySize ==
    /\ events = 0
    /\ \E width \in 1..MaxPixel, height \in 1..MaxPixel : ResizeEvent(width, height)

\* calculate_dimensions reads the pixel size only, so the board is taken with
\* one of the placements Food.__init__ can draw for the first target
InitAnySize ==
    /\ Init
    /\ food.position = <<MIN_GRID_SIZE \div 2 + FoodSpread, MIN_GRID_SIZE \div 2>>

SpecAnySize == InitAnySize /\ [][FirstResizeAnySize]_vars

\* update_game with Food.respawn's loop taken draw by draw.
\* A tick that eats nothing or collides (update_game's other branches):
UpdateGameWithoutFood ==
    /\ ~respawning
    /\ UpdateGame
    /\ score' = score

\* a tick whose head reaches the target: eat_food() is done and respawn() is
\* entered; "self.score += 10" follows the loop
UpdateGameEnterRespawn ==
    /\ ~respawning
    /\ timer_active
    /\ game_active
    /\ events < MaxEvents
    /\ ~check_collision(move(snake))
    /\ move(snake).body[1] = food.position
    /\ events' = events + 1
    /\ last' = "update_game"
    /\ snake' = eat_food(move(snake))
    /\ respawning' = TRUE
    /\ UNCHANGED <<food, score, game_active, cell_size, grid_width, grid_height,
                   timer_active, score_timer_active, game_over_emitted>>

\* one pass of respawn's loop drawing position p, and the rest of update_game
\* when the loop breaks
RespawnDraw(p) ==
    /\ respawning
    /\ p \in generate_position(food)
    /\ food' = [food EXCEPT !.position = p]
    /\ IF respawn_done(p, snake.body)
       THEN /\ respawning' = FALSE
            /\ score' = score_after_food(score)
       ELSE UNCHANGED <<respawning, score>>
    /\ UNCHANGED <<snake, game_active, cell_size, grid_width, grid_height,
                   timer_active, score_timer_active, game_over_emitted, events, last>>

\* a draw of a cell that is not on the body
RespawnDrawFree ==
    \E p \in generate_position(food) \ Cells(snake.body) : RespawnDraw(p)

\* events are handled one at a time: none while update_game is in the loop
NextRespawn ==
    \/ UpdateGameWithoutFood
    \/ UpdateGameEnterRespawn
    \/ \E p \in generate_position(food) : RespawnDraw(p)
    \/ ~respawning /\ \E d \in DirectionSet : KeyPressDirection(d)

\* random draws are fair: a free cell, drawable at every pass, is drawn in the end
SpecRespawn == Init /\ [][NextRespawn]_vars /\ WF_vars(RespawnDrawFree)

\* the board in a window that is never resized
NextNoResize ==
    \/ UpdateGame
    \/ \E d \in DirectionSet : KeyPressDirection(d)
    \/ KeyPressSpaceRestart
    \/ KeyPressSpaceIgnored

SpecNoResize == Init /\ [][NextNoResize]_vars

-----------------------------------------------------------------------------
(* Vocabulary of the properties.                                           *)

InGrid(c, w, h) == 0 <= c[1] /\ c[1] < w /\ 0 <= c[2] /\ c[2] < h

NoRepeatedCell(body) ==
    \A i, j \in 1..Len(body) : i # j => body[i] # body[j]

Opposite(d) == <<-d[1], -d[2]>>

\* the head of snake s lies outside the grid of w x h cells
HeadOutside(s, w, h) == ~InGrid(s.body[1], w, h)

\* the head of snake s is on another cell of its body
HeadOnBody(s) == \E i \in 2..Len(s.body) : s.body[i] = s.body[1]

\* the step is a timer tick handled while the game is running
ActiveTick == last' = "update_game" /\ game_active

-----------------------------------------------------------------------------
\* C1: whenever the game is active, every cell of the body lies inside the
\* grid (0 <= x < grid_width, 0 <= y < grid_height); a body with a cell
\* outside the grid occurs only with game_active false.
C1_BodyInGridOrInactive ==
    game_active =>
        \A i \in 1..Len(snake.body) : InGrid(snake.body[i], grid_width, grid_height)

\* a tick has run the head over the edge of the grid and ended the game
C1_Witness ==
    /\ last = "update_game"
    /\ ~game_active
    /\ HeadOutside(snake, grid_width, grid_height)

\* C2: in every state in which the game is active, in particular after a tick
\* that completed without collision, no two distinct indices of the body hold
\* the same cell.
C2_NoRepeatedCellWhileActive ==
    game_active => NoRepeatedCell(snake.body)

\* a tick of a grown snake completed without collision after a restart
C2_Witness ==
    /\ last = "update_game"
    /\ game_active
    /\ game_over_emitted >= 1
    /\ Len(snake.body) >= 4

\* C3: after a respawn in a tick, and after a resize that repositions the
\* target (in the branch that keeps the body and in the branch that discards
\* it), the target is on no cell of the body.
C3_TargetOffBodyAfterReposition ==
    [][(\/ last' = "update_game" /\ food' # food
        \/ /\ last' = "resizeEvent"
           /\ <<cell_size', grid_width', grid_height'>> # <<cell_size, grid_width, grid_height>>)
       => \A i \in 1..Len(snake'.body) : snake'.body[i] # food'.position]_vars

\* C4 as stated: across a tick of an active game the body never gets shorter,
\* and a tick whose post-step head is on the pre-tick target, and which does
\* not collide, leaves the body exactly one cell longer than before it.
C4_GrowsOnEatingTick ==
    [][ActiveTick =>
          /\ Len(snake'.body) >= Len(snake.body)
          /\ (game_active' /\ move(snake).body[1] = food.position
                => Len(snake'.body) = Len(snake.body) + 1)]_vars

\* C4 amended: across a tick of an active game the body gets exactly one cell
\* longer if growth was pending before the tick and keeps its length
\* otherwise; a tick whose post-step head is on the pre-tick target, and which
\* does not collide, leaves growth pending for the next tick.
C4_GrowsOnTickAfterEating ==
    [][ActiveTick =>
          /\ Len(snake'.body) = Len(snake.body) + (IF snake.grow THEN 1 ELSE 0)
          /\ (game_active' /\ move(snake).body[1] = food.position => snake'.grow)]_vars

\* the tick after the one that ate has made the body one cell longer
C4_Witness ==
    /\ last = "update_game"
    /\ game_active
    /\ score = 10
    /\ Len(snake.body) = 4
    /\ ~snake.grow

\* C5 as stated: a tick of an active game whose post-step head is outside the
\* grid or on another body cell makes game_active false, stops the tick timer,
\* emits game_over exactly once and leaves score, target and the
\* pending-growth flag unchanged.
C5_CollisionTickKeepsGrow ==
    [][(ActiveTick /\ (\/ HeadOutside(move(snake), grid_width, grid_height)
                       \/ HeadOnBody(move(snake))))
       => /\ ~game_active'
          /\ ~timer_active'
          /\ game_over_emitted' = game_over_emitted + 1
          /\ score' = score
          /\ food' = food
          /\ snake'.grow = snake.grow]_vars

\* C5 amended: such a tick makes game_active false, stops the tick timer,
\* emits game_over exactly once and leaves score and target unchanged; the
\* pending-growth flag is false after it, because the step consumes pending
\* growth before the collision is checked.
C5_CollisionTickEndsGame ==
    [][(ActiveTick /\ (\/ HeadOutside(move(snake), grid_width, grid_height)
                       \/ HeadOnBody(move(snake))))
       => /\ ~game_active'
          /\ ~timer_active'
          /\ game_over_emitted' = game_over_emitted + 1
          /\ score' = score
          /\ food' = food
          /\ ~snake'.grow]_vars

\* a tick collided right after a target was eaten: the growth then pending
\* has been consumed by the colliding step
C5_Witness ==
    /\ last = "update_game"
    /\ ~game_active
    /\ ~timer_active
    /\ game_over_emitted = 1
    /\ score = 10
    /\ Len(snake.body) = 4

\* C6 as stated: whenever a step of an active game moves the head into the cell that the last
\* body segment occupied before the step, check_collision right after the step
\* returns true.
C6_HeadIntoTailCollides ==
    (game_active /\ move(snake).body[1] = snake.body[Len(snake.body)])
        => check_collision(move(snake))

\* C6 amended: when a step of an active game moves the head into the cell that
\* the last body segment occupied before the step, check_collision right after
\* the step returns true exactly if growth was pending at the step (the tail
\* was kept); without pending growth the tail has left that cell and
\* check_collision returns false.
C6_HeadIntoTailCollidesIffGrowing ==
    (game_active /\ move(snake).body[1] = snake.body[Len(snake.body)])
        => (check_collision(move(snake)) <=> snake.grow)

\* the snake has eaten and grown and now heads for the cell of its tail
C6_Witness ==
    /\ game_active
    /\ score >= 10
    /\ Len(snake.body) >= 4
    /\ ~snake.grow
    /\ move(snake).body[1] = snake.body[Len(snake.body)]
    /\ ~check_collision(move(snake))

\* C7: for the current heading H, change_direction(opposite(H)) leaves the
\* heading H and any other request sets the heading to the request; so
\* change_direction(opposite(H)) followed by one step never puts the head on
\* the second body cell of before the step.
C7_NoReverseLaw ==
    LET H == snake.direction
        rejected == change_direction(snake, Opposite(H))
    IN /\ rejected.direction = H
       /\ \A d \in DirectionSet \ {Opposite(H)} : change_direction(snake, d).direction = d
       /\ Len(snake.body) >= 2 => move(rejected).body[1] # snake.body[2]

\* C8: game_active goes from true to false only in a tick whose step collides,
\* from false to true only in an accepted restart, and no resize changes it.
C8_ActiveTransitions ==
    [][/\ (game_active /\ ~game_active')
            => /\ last' = "update_game"
               /\ \/ HeadOutside(move(snake), grid_width, grid_height)
                  \/ HeadOnBody(move(snake))
       /\ (~game_active /\ game_active') => last' = "restart_game"
       /\ last' = "resizeEvent" => game_active' = game_active]_vars

\* a game that ended in a collision has been restarted
C8_Witness ==
    /\ last = "restart_game"
    /\ game_active
    /\ game_over_emitted = 1

\* C9: after the resize handler, score and game_active equal their values of
\* before the resize, whether the body was kept or discarded.
C9_ResizePreservesSession ==
    [][last' = "resizeEvent" => score' = score /\ game_active' = game_active]_vars

\* a resize has discarded a snake that had scored (a snake that keeps its body
\* and has scored is longer than three cells or has growth pending)
C9_Witness ==
    /\ last = "resizeEvent"
    /\ score > 0
    /\ game_active
    /\ snake = Snake_init(grid_width, grid_height)

\* C10: after an accepted restart on a grid of W x H cells the body is
\* [(W div 2, H div 2), (W div 2 - 1, H div 2), (W div 2 - 2, H div 2)], the
\* heading is Right, no growth is pending, score is 0, game_active is true and
\* the target is inside the grid and on none of the three body cells.
C10_RestartState ==
    [][last' = "restart_game" =>
          LET W == grid_width
              H == grid_height
          IN /\ snake'.body = << <<W \div 2, H \div 2>>, <<W \div 2 - 1, H \div 2>>,
                                 <<W \div 2 - 2, H \div 2>> >>
             /\ snake'.direction = DIRECTIONS.RIGHT
             /\ ~snake'.grow
             /\ score' = 0
             /\ game_active'
             /\ InGrid(food'.position, W, H)
             /\ \A i \in 1..3 : snake'.body[i] # food'.position]_vars

\* C11: a tick of an active game that does not collide adds exactly 10 to
\* score if the post-step head is on the target and leaves score unchanged
\* otherwise; score is never negative, an accepted restart sets it to 0, and
\* no other step changes it.
C11_ScoreChanges ==
    /\ score >= 0
    /\ [][/\ score' >= 0
          /\ (ActiveTick /\ game_active')
                => score' = IF move(snake).body[1] = food.position
                            THEN score + 10 ELSE score
          /\ last' = "restart_game" => score' = 0
          /\ score' # score
                => \/ ActiveTick /\ game_active'
                   \/ last' = "restart_game"]_vars

\* a tick has just eaten a target for the second time in a game
C11_Witness ==
    /\ last = "update_game"
    /\ game_active
    /\ score = 20
    /\ snake.grow

\* C12: a Space key received while the game is active changes nothing: body,
\* heading, pending growth, target, score, game_active and both timers stay
\* as they are.
C12_RestartIgnoredWhileActive ==
    [][(last' \in {"restart_game", "space_ignored"} /\ game_active)
       => UNCHANGED <<snake, food, score, game_active, cell_size, grid_width,
                      grid_height, timer_active, score_timer_active,
                      game_over_emitted>>]_vars

\* Space was pressed in a running game that had scored
C12_Witness ==
    /\ last = "space_ignored"
    /\ game_active
    /\ timer_active
    /\ score >= 10

\* C15: a resize to new dimensions W x H keeps body, heading and pending
\* growth and sets the snake's stored bounds to (W, H) if every body cell is
\* inside W x H; otherwise the snake becomes a fresh centred 3-cell body
\* heading Right with no growth pending.  Either way, afterwards every body
\* cell is inside W x H and the stored bounds of snake and food are the
\* board's grid dimensions.
C15_ResizeReconciles ==
    [][(/\ last' = "resizeEvent"
        /\ <<cell_size', grid_width', grid_height'>> # <<cell_size, grid_width, grid_height>>)
       => LET W == grid_width'
              H == grid_height'
              fits == \A i \in 1..Len(snake.body) : InGrid(snake.body[i], W, H)
          IN /\ fits => snake' = [snake EXCEPT !.grid_width = W, !.grid_height = H]
             /\ ~fits => snake' = [body |-> << <<W \div 2, H \div 2>>,
                                               <<W \div 2 - 1, H \div 2>>,
                                               <<W \div 2 - 2, H \div 2>> >>,
                                   direction |-> DIRECTIONS.RIGHT,
                                   grow |-> FALSE,
                                   grid_width |-> W,
                                   grid_height |-> H]
             /\ \A i \in 1..Len(snake'.body) : InGrid(snake'.body[i], W, H)
             /\ snake'.grid_width = W /\ snake'.grid_height = H
             /\ food'.grid_width = W /\ food'.grid_height = H]_vars

\* a resize has replaced the snake by a fresh one (only the rebuilding branch
\* can leave the target on the body)
C15_Witness ==
    /\ last = "resizeEvent"
    /\ snake.body = Snake_init(grid_width, grid_height).body
    /\ food.position \in Cells(snake.body)
    /\ snake.grid_width = grid_width
    /\ food.grid_height = grid_height

\* C16: in every reachable state the tick timer runs exactly if game_active
\* is true, so no tick is delivered between a collision and the next restart.
C16_TimerRunsIffActive ==
    timer_active <=> game_active

\* a resize has been handled while the game was over and the timer stays off
C16_Witness ==
    /\ last = "resizeEvent"
    /\ ~game_active
    /\ ~timer_active
    /\ game_over_emitted >= 1

\* C18: a tick of an active game never moves the head onto the cell that the
\* second body segment held before the tick, whatever direction keys were
\* delivered since the tick before.
C18_NoReversalBetweenTicks ==
    [][(ActiveTick /\ Len(snake.body) >= 2)
       => snake'.body[1] # snake.body[2]]_vars

\* C19: without resizes, in every reachable state
\* len(body) + (1 if growth is pending else 0) = 3 + score / 10.
C19_LengthMatchesScore ==
    /\ score % 10 = 0
    /\ Len(snake.body) + (IF snake.grow THEN 1 ELSE 0) = 3 + score \div 10

\* a second target has been eaten after the first one was turned into a cell
C19_Witness ==
    /\ last = "update_game"
    /\ score = 20
    /\ Len(snake.body) = 4
    /\ snake.grow

\* C20: whenever game_active is true the score-refresh timer is running.
C20_ScoreTimerRunsWhileActive ==
    game_active => score_timer_active

\* C13: for every pair of positive pixel dimensions calculate_dimensions
\* returns a cell size within MIN_CELL_SIZE..MAX_CELL_SIZE and a grid of at
\* least MIN_GRID_SIZE cells in each direction (the handler stores the
\* result in the board's fields).
C13_DimensionsInRange ==
    last = "resizeEvent" =>
        /\ MIN_CELL_SIZE <= cell_size /\ cell_size <= MAX_CELL_SIZE
        /\ grid_width >= MIN_GRID_SIZE
        /\ grid_height >= MIN_GRID_SIZE

\* the floor of MIN_GRID_SIZE has applied to the width and not to the height
C13_Witness ==
    /\ last = "resizeEvent"
    /\ cell_size = MIN_CELL_SIZE
    /\ grid_width = MIN_GRID_SIZE
    /\ grid_height > MIN_GRID_SIZE

C17_RespawnTerminates ==
    /\ respawning ~> ~respawning
    /\ [][(respawning /\ ~respawning')
          => /\ InGrid(food'.position, grid_width, grid_height)
             /\ food'.position \notin Cells(snake'.body)]_vars

\* the loop is running and its latest draw has landed on the body behind the
\* head, so it draws again
C17_Witness ==
    /\ respawning
    /\ food.position \in Cells(snake.body)
    /\ food.position # snake.body[1]

=============================================================================
